---------------------------- MODULE Spec2Model ----------------------------
(***************************************************************************)
(* Model of "Lab 1/app.py": the YouTube channel scraper.                   *)
(*   convert_views_to_number : abbreviated view text -> integer            *)
(*   parse_html              : markup -> (success, table, error)           *)
(*   main                    : one scrape attempt per button press         *)
(* Text is modelled as a sequence of one-character strings so that         *)
(* str.replace, str.strip, "in", float() and int() are computed the way    *)
(* Python computes them.                                                   *)
(***************************************************************************)
EXTENDS Integers, Sequences, FiniteSets, TLC

VARIABLES
    \* ---- convert_views_to_number (one call) ----
    cv_pc,          \* "idle" | "returned" | "off"
    views_text,     \* the argument of the call
    cv_ret,         \* what the call gave back: [value, warned, raised]
    \* ---- one pass of parse_html's loop body (lines 225-284) ----
    ex_pc,          \* "title" | "url" | "meta" | "decide" | "done" | "off"
    element,        \* the container being extracted
    title, url, views, time_posted,   \* the loop body's locals
    meta_idx,       \* index of the next metadata selector to evaluate
    meta_tried,     \* metadata selectors evaluated so far, in order
    ex_out,         \* "pending" | "appended" | "dropped" | "raised"
    \* ---- parse_html (whole call) ----
    pc,             \* "start" | "locate" | "check" | "loop" | "finish" | "done" | "off"
    html_content,   \* the input document
    sel_idx,        \* index of the next container selector
    evaluated,      \* container selectors evaluated so far, in order
    video_elements, \* candidate containers
    idx,            \* number of containers already processed
    videos,         \* accepted records
    outcomes,       \* per processed container: "appended" | "dropped" | "raised"
    result,         \* parse_html's return value (NoResult before it returns)
    \* ---- main (one Streamlit session) ----
    m_pc,           \* "ready" | "off"
    api_key,        \* os.getenv('ZENROWS_API_KEY')
    scraped_data,   \* st.session_state.scraped_data: None or a table
    attempt         \* what the last run of the script did

vars == << cv_pc, views_text, cv_ret,
           ex_pc, element, title, url, views, time_posted,
           meta_idx, meta_tried, ex_out,
           pc, html_content, sel_idx, evaluated, video_elements, idx, videos,
           outcomes, result,
           m_pc, api_key, scraped_data, attempt >>

convVars  == << cv_pc, views_text, cv_ret >>
exVars    == << ex_pc, element, title, url, views, time_posted,
                meta_idx, meta_tried, ex_out >>
parseVars == << pc, html_content, sel_idx, evaluated, video_elements, idx,
                videos, outcomes, result >>
mainVars  == << m_pc, api_key, scraped_data, attempt >>

\* Python's None, for a value that is otherwise a string, a text (a sequence
\* of characters), an object (a record) or a table (a sequence of records)
None      == "None"
NoneText  == << "None" >>
NoneObj   == [ none |-> TRUE ]
NoneTable == << NoneObj >>

-----------------------------------------------------------------------------
(* Text helpers: Python str operations on sequences of characters.         *)

DigitChars == {"0", "1", "2", "3", "4", "5", "6", "7", "8", "9"}

DigitVal(c) ==
    CASE c = "0" -> 0 [] c = "1" -> 1 [] c = "2" -> 2 [] c = "3" -> 3
      [] c = "4" -> 4 [] c = "5" -> 5 [] c = "6" -> 6 [] c = "7" -> 7
      [] c = "8" -> 8 [] c = "9" -> 9

MatchAt(s, pat, i) ==
    /\ i + Len(pat) - 1 <= Len(s)
    /\ SubSeq(s, i, i + Len(pat) - 1) = pat

RECURSIVE RemoveFrom(_, _, _)
RemoveFrom(s, pat, i) ==
    IF i > Len(s) THEN << >>
    ELSE IF MatchAt(s, pat, i) THEN RemoveFrom(s, pat, i + Len(pat))
    ELSE << s[i] >> \o RemoveFrom(s, pat, i + 1)

\* s.replace(pat, '') for a non-empty pat: left to right, non-overlapping
Remove(s, pat) == RemoveFrom(s, pat, 1)

Contains(s, c) == \E i \in 1..Len(s) : s[i] = c

StartsWith(s, pat) == MatchAt(s, pat, 1)

EndsWith(s, pat) == Len(pat) <= Len(s) /\ MatchAt(s, pat, Len(s) - Len(pat) + 1)

HasSubstring(s, pat) == \E i \in 1..Len(s) : MatchAt(s, pat, i)

\* s.strip(): whitespace off both ends
Strip(s) ==
    LET inked == { i \in 1..Len(s) : s[i] # " " }
    IN  IF inked = {} THEN << >>
        ELSE LET lo == CHOOSE i \in inked : \A j \in inked : i <= j
                 hi == CHOOSE i \in inked : \A j \in inked : j <= i
             IN  SubSeq(s, lo, hi)

RECURSIVE DigitsValue(_)
DigitsValue(ds) ==
    IF ds = << >> THEN 0
    ELSE 10 * DigitsValue(SubSeq(ds, 1, Len(ds) - 1)) + DigitVal(ds[Len(ds)])

RECURSIVE Pow10(_)
Pow10(k) == IF k = 0 THEN 1 ELSE 10 * Pow10(k - 1)

-----------------------------------------------------------------------------
(* Python float: IEEE-754 binary64.  Exact integers too wide for one       *)
(* machine word are sequences of limbs (base 2^15, least significant       *)
(* first); a significand is a sequence of bits, least significant first;   *)
(* a float is significand * 2^exp.                                         *)

MantBits == 53

LimbBits == 3 * 5
LimbBase == 32 * 1024

RECURSIVE Pow2(_)
Pow2(k) == IF k = 0 THEN 1 ELSE 2 * Pow2(k - 1)

RECURSIVE NatToLimbs(_)
NatToLimbs(n) ==
    IF n = 0 THEN << >> ELSE << n % LimbBase >> \o NatToLimbs(n \div LimbBase)

RECURSIVE LimbsTimes(_, _, _, _)
LimbsTimes(a, c, i, carry) ==
    IF i > Len(a) THEN NatToLimbs(carry)
    ELSE << (a[i] * c + carry) % LimbBase >>
         \o LimbsTimes(a, c, i + 1, (a[i] * c + carry) \div LimbBase)

\* a * 1000^j
RECURSIVE TimesThousands(_, _)
TimesThousands(a, j) ==
    IF j = 0 THEN a ELSE TimesThousands(LimbsTimes(a, 1000, 1, 0), j - 1)

\* quotient and remainder of a by a small d, most significant limb first
RECURSIVE LimbsDiv(_, _, _, _, _)
LimbsDiv(a, d, i, r, q) ==
    IF i = 0 THEN [ q |-> q, r |-> r ]
    ELSE LimbsDiv(a, d, i - 1, (r * LimbBase + a[i]) % d,
                  << (r * LimbBase + a[i]) \div d >> \o q)

LimbsToBits(a) ==
    [ j \in 1..(LimbBits * Len(a)) |->
        (a[((j - 1) \div LimbBits) + 1] \div Pow2((j - 1) % LimbBits)) % 2 ]

RECURSIVE LimbAt(_, _, _)
LimbAt(b, base, j) ==
    IF j > LimbBits THEN 0
    ELSE (IF base + j <= Len(b) THEN b[base + j] * Pow2(j - 1) ELSE 0)
         + LimbAt(b, base, j + 1)

BitsToLimbs(b) ==
    [ i \in 1..((Len(b) + LimbBits - 1) \div LimbBits) |->
        LimbAt(b, LimbBits * (i - 1), 1) ]

\* number of significant bits
BitLen(b) ==
    LET ones == { i \in 1..Len(b) : b[i] = 1 }
    IN  IF ones = {} THEN 0 ELSE CHOOSE i \in ones : \A j \in ones : j <= i

AddOne(b) ==
    LET zeros == { i \in 1..Len(b) : b[i] = 0 }
        z     == IF zeros = {} THEN Len(b) + 1
                 ELSE CHOOSE i \in zeros : \A j \in zeros : i <= j
    IN  [ i \in 1..(IF z > Len(b) THEN z ELSE Len(b)) |->
            IF i < z THEN 0 ELSE IF i = z THEN 1 ELSE b[i] ]

\* b, of L significant bits, rounded to nearest (ties to even) on MantBits
\* bits; sticky0: a nonzero part below b was already cut off
RoundAt(b, L, sticky0) ==
    IF L <= MantBits THEN [ man |-> SubSeq(b, 1, L), shift |-> 0 ]
    ELSE LET t      == L - MantBits
             top    == [ i \in 1..MantBits |-> b[t + i] ]
             sticky == sticky0 \/ \E i \in 1..(t - 1) : b[i] = 1
             up     == b[t] = 1 /\ (sticky \/ top[1] = 1)
         IN  [ man |-> IF up THEN AddOne(top) ELSE top, shift |-> t ]

RoundNearestEven(b, sticky0) == RoundAt(b, BitLen(b), sticky0)

\* the float r.man * 2^(r.shift + e)
WithExp(r, e) == [ man |-> r.man, exp |-> r.shift + e ]

LimbsDivide(a, d) == LimbsDiv(a, d, Len(a), 0, << >>)

RoundQuotient(d) == RoundNearestEven(LimbsToBits(d.q), d.r # 0)

\* float("<n> / 10^k") for a decimal numeral with digits n and k fractional
\* digits: the quotient is taken with 5 limbs of extra binary places, then
\* rounded
FloatOfDecimal(n, k) ==
    IF n = 0 THEN [ man |-> << >>, exp |-> 0 ]
    ELSE WithExp(RoundQuotient(LimbsDivide(<< 0, 0, 0, 0, 0 >> \o NatToLimbs(n),
                                           Pow10(k))),
                 0 - 5 * LimbBits)

\* f * 1000^j (1000^j is exactly representable), correctly rounded
FloatTimesThousands(f, j) ==
    WithExp(RoundNearestEven(LimbsToBits(TimesThousands(BitsToLimbs(f.man), j)),
                             FALSE),
            f.exp)

\* the integer with limbs a (below 2^31)
LimbsToNat(a) ==
    (IF Len(a) >= 1 THEN a[1] ELSE 0)
    + (IF Len(a) >= 2 THEN a[2] * LimbBase ELSE 0)
    + (IF Len(a) >= 3 THEN a[3] * LimbBase * LimbBase ELSE 0)

\* the bits of f >= 0 at and above the binary point
IntegerBits(f) ==
    IF f.exp >= 0 THEN [ i \in 1..f.exp |-> 0 ] \o f.man
    ELSE IF 0 - f.exp >= Len(f.man) THEN << >>
    ELSE SubSeq(f.man, 1 - f.exp, Len(f.man))

\* int(f) for f >= 0: truncation
FloatTrunc(f) == LimbsToNat(BitsToLimbs(IntegerBits(f)))

-----------------------------------------------------------------------------
(* float(text) and int(text): which texts parse, and to what.              *)

\* sign and body of a numeral, surrounding whitespace ignored
Unsigned(s) ==
    LET t == Strip(s)
    IN  IF t # << >> /\ t[1] \in {"-", "+"}
        THEN [ neg |-> t[1] = "-", body |-> Tail(t) ]
        ELSE [ neg |-> FALSE, body |-> t ]

\* float(s): [ok, neg, n, k] with value (-1)^neg * n / 10^k
ParseFloat(s) ==
    LET u    == Unsigned(s)
        b    == u.body
        dots == { i \in 1..Len(b) : b[i] = "." }
        ok   == /\ Cardinality(dots) <= 1
                /\ \A i \in 1..Len(b) : b[i] \in DigitChars \cup {"."}
                /\ \E i \in 1..Len(b) : b[i] \in DigitChars
    IN  IF ~ok THEN [ ok |-> FALSE, neg |-> FALSE, n |-> 0, k |-> 0 ]
        ELSE LET ds == Remove(b, << "." >>)
                 k  == IF dots = {} THEN 0
                       ELSE Len(b) - (CHOOSE i \in dots : TRUE)
             IN  [ ok |-> TRUE, neg |-> u.neg, n |-> DigitsValue(ds), k |-> k ]

\* int(s): [ok, value]
ParseInt(s) ==
    LET u  == Unsigned(s)
        b  == u.body
        ok == b # << >> /\ \A i \in 1..Len(b) : b[i] \in DigitChars
    IN  IF ~ok THEN [ ok |-> FALSE, value |-> 0 ]
        ELSE [ ok |-> TRUE,
               value |-> IF u.neg THEN 0 - DigitsValue(b) ELSE DigitsValue(b) ]

-----------------------------------------------------------------------------
(* convert_views_to_number                                                 *)

VIEWS == << " ", "v", "i", "e", "w", "s" >>
VIEW  == << " ", "v", "i", "e", "w" >>

\* int(p * 1000^thousands) for the float p parsed from the text
ScaledValue(p, thousands) ==
    IF ~p.ok THEN [ ok |-> FALSE, value |-> 0 ]
    ELSE [ ok |-> TRUE,
           value |-> (IF p.neg THEN 0 - 1 ELSE 1)
                     * FloatTrunc(FloatTimesThousands(FloatOfDecimal(p.n, p.k),
                                                      thousands)) ]

\* int(float(s) * 1000^thousands); not ok when float(s) raises ValueError
Scaled(s, thousands) == ScaledValue(ParseFloat(s), thousands)

\* line 160: the text the branches look at
UnitStripped(text) == Strip(Remove(Remove(text, VIEWS), VIEW))

\* lines 163-179: [ok, value], not ok when a statement raises
Branches(t) ==
    IF Contains(t, "K") THEN Scaled(Remove(t, << "K" >>), 1)
    ELSE IF Contains(t, "M") THEN Scaled(Remove(t, << "M" >>), 2)
    ELSE IF Contains(t, "B") THEN Scaled(Remove(t, << "B" >>), 3)
    ELSE ParseInt(Remove(t, << "," >>))

\* lines 158-179: the body of the try block
ConvertTry(text) == Branches(UnitStripped(text))

\* lines 181-183 missing: the exception leaves the function
Uncaught(r) == [ value |-> r.value, warned |-> FALSE, raised |-> ~r.ok ]

\* lines 181-183: the except clause.  value: what is returned; warned:
\* logger.warning ran; raised: an exception left the function
Caught(r) ==
    IF r.ok THEN [ value |-> r.value, warned |-> FALSE, raised |-> FALSE ]
    ELSE [ value |-> 0, warned |-> TRUE, raised |-> FALSE ]

\* lines 147-183
convert_views_to_number(text) == Caught(ConvertTry(text))

-----------------------------------------------------------------------------
(* Inputs of convert_views_to_number.                                      *)

MaxIntDigits  == 1
MaxFracDigits == 2

SampleDigits == {"0", "1", "2", "4", "8"}

DigitStrings(n) == [ 1..n -> SampleDigits ]

IntParts  == UNION { DigitStrings(n) : n \in 1..MaxIntDigits }
FracParts == UNION { DigitStrings(n) : n \in 0..MaxFracDigits }

Numeral(ip, fp) == IF fp = << >> THEN ip ELSE ip \o << "." >> \o fp

Suffixes == { << >>, << "K" >>, << "M" >>, << "B" >> }
Signs    == { << >>, << "-" >> }
Units    == { << >>, VIEWS }

Multiplier(suf) ==
    CASE suf = << "K" >> -> 1000
      [] suf = << "M" >> -> 1000000
      [] suf = << "B" >> -> 1000000000
      [] OTHER -> 1

\* floor(n * mult / 10^k), exactly
ExactScaled(n, k, mult) ==
    IF Pow10(k) <= mult THEN n * (mult \div Pow10(k))
    ELSE n \div (Pow10(k) \div mult)

\* the scaled value is kept below 2^31
InRange(ip, fp, suf) ==
    LET n == DigitsValue(ip \o fp)
        k == Len(fp)
        m == Multiplier(suf)
    IN  Pow10(k) <= m => n <= 2147483647 \div (m \div Pow10(k))

NumberTexts ==
    { sg \o Numeral(c[1], c[2]) \o c[3] \o un :
        sg \in Signs, un \in Units,
        c \in { d \in IntParts \X FracParts \X Suffixes : InRange(d[1], d[2], d[3]) } }

ExampleTexts ==
    { << "8", ".", "8", "K" >> \o VIEWS,
      << "1", ".", "2", "M" >> \o VIEWS,
      << "1", ".", "5", "B" >> \o VIEWS,
      << "5", "2", "3" >> \o VIEWS,
      << "1", "2", ",", "3", "4", "5" >> \o VIEWS,
      << "1" >> \o VIEW,
      << "1", ".", "1", "K" >> \o VIEWS,
      << "4", ".", "1", "M" >> \o VIEWS,
      << "N", "/", "A" >>,
      << >>,
      << "a", "b", "c" >> \o VIEWS,
      << "N", "o" >> \o VIEWS,
      << "K" >>,
      << "1", "K", "M" >>,
      << "1", "M", "B" >>,
      << "1", ",", "2", "K" >>,
      << "1", ".", "2", ".", "3", "K" >>,
      << " ", "7", " " >>,
      << "-" >>,
      << "." >>,
      << "3", " ", "d", "a", "y", "s", " ", "a", "g", "o" >> }

ViewTexts == NumberTexts \cup ExampleTexts

-----------------------------------------------------------------------------
(* The markup, as far as the selectors of parse_html can tell it apart.    *)
(* A container holds, in document order, the nodes a title or url selector *)
(* can match ("links") and its span nodes ("spans").                       *)
(*   link: [tag, id, title_attr, href, text, in_h3]                        *)
(*   span: [text, line, block]   line: the ancestor with id metadata-line  *)
(*         is a "div", some "other" tag, or there is "none";               *)
(*         block: inside a ytd-video-meta-block                            *)
(* An attribute that is absent is None.  fault names the step of the loop  *)
(* body at which extracting this container raises ("none": it does not).   *)

TitleSelectors ==
    << "#video-title", "a#video-title-link", "a[title]", "h3 a",
       "yt-formatted-string#video-title" >>

UrlSelector == "a#video-title-link, a#video-title"

MetadataSelectors ==
    << "#metadata-line span", "div#metadata-line span",
       "ytd-video-meta-block span" >>

ContainerSelectors ==
    << "ytd-grid-video-renderer", "ytd-rich-item-renderer", "div#dismissible" >>

Origin ==
    << "h", "t", "t", "p", "s", ":", "/", "/", "w", "w", "w", ".",
       "y", "o", "u", "t", "u", "b", "e", ".", "c", "o", "m" >>

NotAvailable == << "N", "/", "A" >>

\* does the CSS selector match the node
Matches(sel, n) ==
    CASE sel = "#video-title"       -> n.id = "video-title"
      [] sel = "a#video-title-link" -> n.tag = "a" /\ n.id = "video-title-link"
      [] sel = "a[title]"           -> n.tag = "a" /\ n.title_attr # NoneText
      [] sel = "h3 a"               -> n.tag = "a" /\ n.in_h3
      [] sel = "yt-formatted-string#video-title"
                                    -> n.tag = "yt-formatted-string" /\ n.id = "video-title"
      [] sel = UrlSelector          -> n.tag = "a" /\ n.id \in {"video-title-link", "video-title"}
      [] sel = "#metadata-line span"       -> n.line # "none"
      [] sel = "div#metadata-line span"    -> n.line = "div"
      [] sel = "ytd-video-meta-block span" -> n.block

\* element.select(sel): the matching nodes in document order
Select(nodes, sel) == SelectSeq(nodes, LAMBDA n : Matches(sel, n))

\* element.select_one(sel): the first match, or None
SelectOne(nodes, sel) ==
    IF Select(nodes, sel) = << >> THEN NoneObj ELSE Select(nodes, sel)[1]

\* node.get_text(strip=True)
GetText(n) == Strip(n.text)

\* Python truthiness of a str-or-None
Truthy(x) == x # NoneText /\ x # << >>

-----------------------------------------------------------------------------
(* The loop body of parse_html, step by step.                              *)

\* lines 235-240: one title selector; st = [title, done]
TitleStep(st, links, sel) ==
    LET title_elem == SelectOne(links, sel)
    IN  IF title_elem = NoneObj THEN st
        ELSE LET t == IF Truthy(title_elem.title_attr) THEN title_elem.title_attr
                      ELSE GetText(title_elem)
             IN  [ title |-> t, done |-> Truthy(t) ]

RECURSIVE TitleLoop(_, _, _)
TitleLoop(st, links, i) ==
    IF i > Len(TitleSelectors) \/ st.done THEN st
    ELSE TitleLoop(TitleStep(st, links, TitleSelectors[i]), links, i + 1)

\* lines 226-240
ExtractTitle(links) == TitleLoop([ title |-> NoneText, done |-> FALSE ], links, 1).title

\* line 247, with a missing test for the relative path
BuildUrlNoPrefix(href) == href

\* line 247
BuildUrl(href) == IF StartsWith(href, << "/" >>) THEN Origin \o href ELSE href

\* lines 243-247
ExtractUrl(links) ==
    LET url_elem == SelectOne(links, UrlSelector)
    IN  IF url_elem # NoneObj /\ Truthy(url_elem.href) THEN BuildUrl(url_elem.href)
        ELSE NoneText

\* lines 262-266: two or more spans
TakeBoth(st, cv, posted) ==
    [ st EXCEPT !.views = cv.value, !.time_posted = posted,
                !.raised = cv.raised, !.done = TRUE ]

\* lines 268-269 followed by a break
TakeViewsAndBreak(st, cv) ==
    [ st EXCEPT !.views = cv.value, !.raised = cv.raised, !.done = TRUE ]

\* lines 268-269: exactly one span; the loop goes on
TakeViews(st, cv) ==
    [ st EXCEPT !.views = cv.value, !.raised = cv.raised ]

\* lines 261-269 with the search ending at the first selector that finds a span
MetaFoundBreakOnOne(st, metadata_spans) ==
    IF Len(metadata_spans) >= 2
    THEN TakeBoth(st, convert_views_to_number(GetText(metadata_spans[1])),
                  GetText(metadata_spans[2]))
    ELSE IF Len(metadata_spans) = 1
    THEN TakeViewsAndBreak(st, convert_views_to_number(GetText(metadata_spans[1])))
    ELSE st

\* lines 261-269: what the spans of one selector do to the locals
MetaFound(st, metadata_spans) ==
    IF Len(metadata_spans) >= 2
    THEN TakeBoth(st, convert_views_to_number(GetText(metadata_spans[1])),
                  GetText(metadata_spans[2]))
    ELSE IF Len(metadata_spans) = 1
    THEN TakeViews(st, convert_views_to_number(GetText(metadata_spans[1])))
    ELSE st

\* lines 259-269: one metadata selector;
\* st = [views, time_posted, idx, tried, done, raised]
MetaStep(st, spans) ==
    MetaFound([ st EXCEPT !.tried = Append(st.tried, MetadataSelectors[st.idx]),
                          !.idx = st.idx + 1 ],
              Select(spans, MetadataSelectors[st.idx]))

\* lines 250-251
MetaStart ==
    [ views |-> 0, time_posted |-> NotAvailable, idx |-> 1, tried |-> << >>,
      done |-> FALSE, raised |-> FALSE ]

MetaOver(st) == st.done \/ st.raised \/ st.idx > Len(MetadataSelectors)

RECURSIVE MetaLoop(_, _)
MetaLoop(st, spans) ==
    IF MetaOver(st) THEN st ELSE MetaLoop(MetaStep(st, spans), spans)

\* line 272 without the test on url
AcceptedTitleOnly(t, u) == Truthy(t)

\* line 272
Accepted(t, u) == Truthy(t) /\ Truthy(u)

\* lines 273-279 ('Scraped At', the wall clock, is left out)
Record(t, u, v, p) == [ Title |-> t, URL |-> u, Views |-> v, Posted |-> p ]

\* lines 271-284: [out: "appended" | "dropped" | "raised", record]
Outcome(fault, t, u, m) ==
    IF fault # "none" \/ m.raised
    THEN [ out |-> "raised", record |-> NoneObj ]
    ELSE IF Accepted(t, u)
    THEN [ out |-> "appended", record |-> Record(t, u, m.views, m.time_posted) ]
    ELSE [ out |-> "dropped", record |-> NoneObj ]

\* lines 224-284 for one container
ExtractElement(e) ==
    Outcome(e.fault, ExtractTitle(e.links), ExtractUrl(e.links),
            MetaLoop(MetaStart, e.spans))

-----------------------------------------------------------------------------
(* parse_html as a whole.  A document is [rejected, elems]: rejected says  *)
(* that BeautifulSoup(html_content, 'html.parser') raises on it, elems are *)
(* its elements in document order, each [kind, links, spans, fault] with   *)
(* kind the container selector that matches it ("other": none does).       *)

ErrNoElements ==
    "No video elements found. Page structure may have changed or content didn't load."
ErrNoVideos ==
    "No videos were successfully parsed. Check if the page loaded correctly."
ErrParsingFailed == "Parsing failed - "

NoResult == [ success |-> FALSE, df |-> NoneTable, error |-> "not returned" ]

Failure(msg) == [ success |-> FALSE, df |-> NoneTable, error |-> msg ]

Success(table) == [ success |-> TRUE, df |-> table, error |-> None ]

\* soup.select(selector) on the document
SelectContainers(doc, sel) == SelectSeq(doc.elems, LAMBDA e : e.kind = sel)

\* lines 209-214 without the break: the last selector that matches wins
LocateStepNoBreak(st, doc) ==
    LET elements == SelectContainers(doc, ContainerSelectors[st.sel_idx])
        seen     == [ st EXCEPT !.evaluated = Append(st.evaluated,
                                                    ContainerSelectors[st.sel_idx]),
                                !.sel_idx = st.sel_idx + 1 ]
    IN  IF elements # << >> THEN [ seen EXCEPT !.video_elements = elements ]
        ELSE seen

\* lines 209-214: one container selector;
\* st = [sel_idx, evaluated, video_elements, found]
LocateStep(st, doc) ==
    LET elements == SelectContainers(doc, ContainerSelectors[st.sel_idx])
        seen     == [ st EXCEPT !.evaluated = Append(st.evaluated,
                                                    ContainerSelectors[st.sel_idx]),
                                !.sel_idx = st.sel_idx + 1 ]
    IN  IF elements # << >>
        THEN [ seen EXCEPT !.video_elements = elements, !.found = TRUE ]
        ELSE seen

\* line 208
LocateStart ==
    [ sel_idx |-> 1, evaluated |-> << >>, video_elements |-> << >>, found |-> FALSE ]

LocateOver(st) == st.found \/ st.sel_idx > Len(ContainerSelectors)

RECURSIVE LocateLoop(_, _)
LocateLoop(st, doc) ==
    IF LocateOver(st) THEN st ELSE LocateLoop(LocateStep(st, doc), doc)

\* lines 282-284 emptying the list when a container raises
KeepAbort(vs, r) ==
    IF r.out = "appended" THEN Append(vs, r.record)
    ELSE IF r.out = "raised" THEN << >>
    ELSE vs

\* lines 272-284: the records after one more container
Keep(vs, r) == IF r.out = "appended" THEN Append(vs, r.record) ELSE vs

\* lines 223-284: one turn of the loop
LoopStep(vs, e) == Keep(vs, ExtractElement(e))

RECURSIVE ParseLoop(_, _, _)
ParseLoop(vs, elems, i) ==
    IF i > Len(elems) THEN vs ELSE ParseLoop(LoopStep(vs, elems[i]), elems, i + 1)

\* lines 286-293 with an empty table reported as a success
FinishAlwaysSuccess(vs) == Success(vs)

\* lines 286-293
Finish(vs) == IF vs = << >> THEN Failure(ErrNoVideos) ELSE Success(vs)

\* lines 216-220: the early return, NoResult when parsing goes on
Check(elems) == IF elems = << >> THEN Failure(ErrNoElements) ELSE NoResult

\* lines 216-293
ParseFound(found) ==
    IF Check(found) # NoResult THEN Check(found)
    ELSE Finish(ParseLoop(<< >>, found, 1))

\* lines 185-299
parse_html(doc) ==
    IF doc.rejected THEN Failure(ErrParsingFailed)
    ELSE ParseFound(LocateLoop(LocateStart, doc).video_elements)

-----------------------------------------------------------------------------
(* call_zenrows and main.                                                  *)

\* lines 94-117: the message for a status other than 200
StatusError(status) ==
    CASE status = 401 -> "401 Unauthorized - Invalid API Key"
      [] status = 403 -> "403 Forbidden - Access denied"
      [] status = 400 -> "400 Bad Request - Invalid parameters"
      [] status = 500 -> "500 Internal Server Error - ZenRows API issue"
      [] OTHER -> "HTTP"

\* lines 119-141: the message for an exception of requests.get
ExceptionError(exc) ==
    CASE exc = "Timeout" -> "Request timeout - ZenRows API took too long to respond"
      [] exc = "ConnectionError" -> "Connection error - "
      [] exc = "RequestException" -> "Request exception - "
      [] OTHER -> "Unexpected error - "

\* lines 83-141: (success, response_text, error_message); resp is what
\* requests.get did: [raised, status, text]
call_zenrows(resp) ==
    IF resp.raised # None
    THEN [ success |-> FALSE, text |-> NoneObj, error |-> ExceptionError(resp.raised) ]
    ELSE IF resp.status = 200
    THEN [ success |-> TRUE, text |-> resp.text, error |-> None ]
    ELSE [ success |-> FALSE, text |-> NoneObj, error |-> StatusError(resp.status) ]

SlashVideos == << "/", "v", "i", "d", "e", "o", "s" >>

\* lines 373-377
EnsureVideos(channel_url) ==
    IF HasSubstring(channel_url, SlashVideos) THEN channel_url
    ELSE IF EndsWith(channel_url, << "/" >>) THEN channel_url \o Tail(SlashVideos)
    ELSE channel_url \o SlashVideos

\* what one run of the script did
Idle ==
    [ button |-> FALSE, url |-> NoneText, fetched |-> FALSE, fetch_ok |-> FALSE,
      parsed |-> FALSE, parse_ok |-> FALSE, assigned |-> FALSE, df |-> NoneTable,
      error |-> None ]

\* lines 398-406 with the table stored whatever parse_html returned
AfterParseAlwaysStore(run, sd, p) ==
    [ run  |-> [ run EXCEPT !.fetch_ok = TRUE, !.parsed = TRUE,
                            !.parse_ok = p.success, !.assigned = TRUE,
                            !.df = p.df ],
      data |-> p.df ]

\* lines 398-406: [run, data] after parse_html returned p
AfterParse(run, sd, p) ==
    IF ~p.success
    THEN [ run  |-> [ run EXCEPT !.fetch_ok = TRUE, !.parsed = TRUE,
                                 !.error = p.error ],
           data |-> sd ]
    ELSE [ run  |-> [ run EXCEPT !.fetch_ok = TRUE, !.parsed = TRUE,
                                 !.parse_ok = TRUE, !.assigned = TRUE,
                                 !.df = p.df ],
           data |-> p.df ]

\* lines 393-406: [run, data] after the fetch returned
AfterFetch(run, sd, fetch) ==
    IF ~fetch.success
    THEN [ run |-> [ run EXCEPT !.error = fetch.error ], data |-> sd ]
    ELSE AfterParse(run, sd, parse_html(fetch.text))

\* lines 367-406: the button was pressed; sd is st.session_state.scraped_data
Scrape(channel_url, resp, sd) ==
    IF channel_url = << >>
    THEN [ run  |-> [ Idle EXCEPT !.button = TRUE, !.url = channel_url,
                                  !.error = "Please enter a YouTube channel URL" ],
           data |-> sd ]
    ELSE AfterFetch([ Idle EXCEPT !.button = TRUE,
                                  !.url = EnsureVideos(channel_url),
                                  !.fetched = TRUE ],
                    sd, call_zenrows(resp))

-----------------------------------------------------------------------------
(* Inputs of the loop body, of parse_html and of main.                     *)

MaxLinks == 2
MaxSpans == 2
MaxDoc   == 3

SeqsUpTo(S, n) == UNION { [ 1..k -> S ] : k \in 0..n }

Link(tag, id, title_attr, href, text, in_h3) ==
    [ tag |-> tag, id |-> id, title_attr |-> title_attr, href |-> href,
      text |-> text, in_h3 |-> in_h3 ]

\* <a id="video-title-link" title="V1" href="/w">V1</a>
LinkRelative ==
    Link("a", "video-title-link", << "V", "1" >>, << "/", "w" >>, << "V", "1" >>, FALSE)
\* <a id="video-title" href="h:x"> V2 </a>
LinkAbsolute ==
    Link("a", "video-title", NoneText, << "h", ":", "x" >>, << " ", "V", "2", " " >>, FALSE)
\* <a id="video-title-link" title="" href=""></a>
LinkBlank ==
    Link("a", "video-title-link", << >>, << >>, << >>, FALSE)
\* <yt-formatted-string id="video-title">V4</yt-formatted-string>
LinkTextOnly ==
    Link("yt-formatted-string", "video-title", NoneText, NoneText, << "V", "4" >>, FALSE)
\* <h3><a href="/h">V5</a></h3>
LinkInHeading ==
    Link("a", "", NoneText, << "/", "h" >>, << "V", "5" >>, TRUE)

LinkKinds == { LinkRelative, LinkAbsolute, LinkBlank, LinkTextOnly, LinkInHeading }

TextViews  == << "5", "2", "3" >> \o VIEWS
TextPosted == << "3", " ", "d", "a", "y", "s", " ", "a", "g", "o" >>
TextKViews == << "1", ".", "1", "K" >> \o VIEWS

SpanKinds ==
    { [ text |-> t, line |-> c[1], block |-> c[2] ] :
        t \in { TextViews, TextPosted },
        c \in { << "div", TRUE >>, << "other", FALSE >>, << "none", TRUE >> } }

Faults == { "none", "title", "url", "meta" }

ExtractElements ==
    { [ kind |-> ContainerSelectors[1], links |-> l, spans |-> sp, fault |-> f ] :
        l \in SeqsUpTo(LinkKinds, MaxLinks),
        sp \in SeqsUpTo(SpanKinds, MaxSpans),
        f \in Faults }

MetaSpan(t) == [ text |-> t, line |-> "div", block |-> TRUE ]

\* the containers the documents are made of: [links, spans, fault]
BodyFull ==
    [ links |-> << LinkRelative >>,
      spans |-> << MetaSpan(TextKViews), MetaSpan(TextPosted) >>, fault |-> "none" ]
BodyBare ==
    [ links |-> << LinkAbsolute >>, spans |-> << >>, fault |-> "none" ]
BodyNoUrl ==
    [ links |-> << LinkTextOnly >>, spans |-> << MetaSpan(TextViews) >>, fault |-> "none" ]
BodyFaulty ==
    [ links |-> << LinkRelative >>, spans |-> << MetaSpan(TextViews) >>, fault |-> "meta" ]

Bodies == { BodyFull, BodyBare, BodyNoUrl, BodyFaulty }

Kinds == { ContainerSelectors[i] : i \in 1..Len(ContainerSelectors) } \cup { "other" }

DocElement(kind, body) ==
    [ kind |-> kind, links |-> body.links, spans |-> body.spans, fault |-> body.fault ]

DocElements == { DocElement(k, b) : k \in Kinds, b \in Bodies }

Docs ==
    { [ rejected |-> r, elems |-> es ] :
        r \in BOOLEAN, es \in SeqsUpTo(DocElements, MaxDoc) }

Doc(es) == [ rejected |-> FALSE, elems |-> es ]

\* the documents the fetch can return in the model of main
MainDocs ==
    { Doc(<< >>),
      [ rejected |-> TRUE, elems |-> << >> ],
      Doc(<< DocElement(ContainerSelectors[1], BodyFull) >>),
      Doc(<< DocElement(ContainerSelectors[1], BodyBare),
             DocElement(ContainerSelectors[2], BodyFull) >>),
      Doc(<< DocElement(ContainerSelectors[2], BodyBare),
             DocElement(ContainerSelectors[2], BodyFull) >>),
      Doc(<< DocElement(ContainerSelectors[3], BodyNoUrl),
             DocElement(ContainerSelectors[3], BodyFaulty) >>) }

Responses ==
    { [ raised |-> None, status |-> 200, text |-> d ] : d \in MainDocs }
    \cup { [ raised |-> None, status |-> c, text |-> NoneObj ] :
             c \in { 400, 401, 403, 404, 500 } }
    \cup { [ raised |-> x, status |-> 0, text |-> NoneObj ] :
             x \in { "Timeout", "ConnectionError", "RequestException", "Exception" } }

Urls ==
    { << >>,
      << "y", "/", "@", "c" >>,
      << "y", "/", "@", "c", "/" >>,
      << "y", "/", "@", "c" >> \o SlashVideos,
      << "y", "/", "@", "d" >> }

-----------------------------------------------------------------------------
(* Values of the variables of a component that is not running.             *)

NoRet == [ value |-> 0, warned |-> FALSE, raised |-> FALSE ]

ConvOff ==
    /\ cv_pc = "off"
    /\ views_text = << >>
    /\ cv_ret = NoRet

ExOff ==
    /\ ex_pc = "off"
    /\ element = NoneObj
    /\ title = NoneText
    /\ url = NoneText
    /\ views = 0
    /\ time_posted = NotAvailable
    /\ meta_idx = 1
    /\ meta_tried = << >>
    /\ ex_out = "pending"

ParseOff ==
    /\ pc = "off"
    /\ html_content = NoneObj
    /\ sel_idx = 1
    /\ evaluated = << >>
    /\ video_elements = << >>
    /\ idx = 0
    /\ videos = << >>
    /\ outcomes = << >>
    /\ result = NoResult

MainOff ==
    /\ m_pc = "off"
    /\ api_key = None
    /\ scraped_data = NoneTable
    /\ attempt = Idle

-----------------------------------------------------------------------------
(* One call of convert_views_to_number.                                    *)

ConvCall ==
    /\ cv_pc = "idle"
    /\ \E t \in ViewTexts :
         /\ views_text' = t
         /\ cv_ret' = convert_views_to_number(t)
    /\ cv_pc' = "returned"
    /\ UNCHANGED << exVars, parseVars, mainVars >>

\* the caller has taken the value; the call's frame is gone
ConvReturn ==
    /\ cv_pc = "returned"
    /\ cv_pc' = "idle"
    /\ views_text' = << >>
    /\ cv_ret' = NoRet
    /\ UNCHANGED << exVars, parseVars, mainVars >>

InitConv ==
    /\ cv_pc = "idle"
    /\ views_text = << >>
    /\ cv_ret = NoRet
    /\ ExOff /\ ParseOff /\ MainOff

NextConv == ConvCall \/ ConvReturn

SpecConv == InitConv /\ [][NextConv]_vars

-----------------------------------------------------------------------------
(* One pass of the loop body of parse_html (lines 224-284).                *)

\* lines 226-240
ExTitle ==
    /\ ex_pc = "title"
    /\ element.fault # "title"
    /\ title' = ExtractTitle(element.links)
    /\ ex_pc' = "url"
    /\ UNCHANGED << element, url, views, time_posted, meta_idx, meta_tried, ex_out,
                    convVars, parseVars, mainVars >>

\* lines 243-247
ExUrl ==
    /\ ex_pc = "url"
    /\ element.fault # "url"
    /\ url' = ExtractUrl(element.links)
    /\ ex_pc' = "meta"
    /\ UNCHANGED << element, title, views, time_posted, meta_idx, meta_tried, ex_out,
                    convVars, parseVars, mainVars >>

\* lines 259-269: one turn of the metadata loop
ExMeta ==
    /\ ex_pc = "meta"
    /\ element.fault # "meta"
    /\ \E st \in { MetaStep([ views |-> views, time_posted |-> time_posted,
                               idx |-> meta_idx, tried |-> meta_tried,
                               done |-> FALSE, raised |-> FALSE ],
                             element.spans) } :
         /\ views' = st.views
         /\ time_posted' = st.time_posted
         /\ meta_idx' = st.idx
         /\ meta_tried' = st.tried
         /\ ex_pc' = IF st.raised THEN "done"
                     ELSE IF MetaOver(st) THEN "decide" ELSE "meta"
         /\ ex_out' = IF st.raised THEN "raised" ELSE ex_out
    /\ UNCHANGED << element, title, url, convVars, parseVars, mainVars >>

\* lines 272-280
ExDecide ==
    /\ ex_pc = "decide"
    /\ ex_out' = IF Accepted(title, url) THEN "appended" ELSE "dropped"
    /\ ex_pc' = "done"
    /\ UNCHANGED << element, title, url, views, time_posted, meta_idx, meta_tried,
                    convVars, parseVars, mainVars >>

\* lines 282-284: the step raised; the container is skipped
ExRaise ==
    /\ ex_pc \in { "title", "url", "meta" }
    /\ element.fault = ex_pc
    /\ ex_out' = "raised"
    /\ ex_pc' = "done"
    /\ UNCHANGED << element, title, url, views, time_posted, meta_idx, meta_tried,
                    convVars, parseVars, mainVars >>

InitExtract ==
    /\ ex_pc = "title"
    /\ element \in ExtractElements
    /\ title = NoneText
    /\ url = NoneText
    /\ views = 0
    /\ time_posted = NotAvailable
    /\ meta_idx = 1
    /\ meta_tried = << >>
    /\ ex_out = "pending"
    /\ ConvOff /\ ParseOff /\ MainOff

NextExtract == ExTitle \/ ExUrl \/ ExMeta \/ ExDecide \/ ExRaise

SpecExtract == InitExtract /\ [][NextExtract]_vars

-----------------------------------------------------------------------------
(* One call of parse_html.                                                 *)

\* lines 197-199, 295-299
ParseStart ==
    /\ pc = "start"
    /\ IF html_content.rejected
       THEN /\ result' = Failure(ErrParsingFailed)
            /\ pc' = "done"
       ELSE /\ result' = result
            /\ pc' = "locate"
    /\ UNCHANGED << html_content, sel_idx, evaluated, video_elements, idx, videos,
                    outcomes, convVars, exVars, mainVars >>

\* lines 209-214: one turn of the selector loop
Locate ==
    /\ pc = "locate"
    /\ \E st \in { LocateStep([ sel_idx |-> sel_idx, evaluated |-> evaluated,
                                 video_elements |-> video_elements,
                                 found |-> FALSE ],
                               html_content) } :
         /\ sel_idx' = st.sel_idx
         /\ evaluated' = st.evaluated
         /\ video_elements' = st.video_elements
         /\ pc' = IF LocateOver(st) THEN "check" ELSE "locate"
    /\ UNCHANGED << html_content, idx, videos, outcomes, result,
                    convVars, exVars, mainVars >>

\* lines 216-220
CheckContainers ==
    /\ pc = "check"
    /\ result' = Check(video_elements)
    /\ pc' = IF Check(video_elements) = NoResult THEN "loop" ELSE "done"
    /\ UNCHANGED << html_content, sel_idx, evaluated, video_elements, idx, videos,
                    outcomes, convVars, exVars, mainVars >>

\* lines 223-284: one container
ProcessContainer ==
    /\ pc = "loop"
    /\ idx < Len(video_elements)
    /\ \E r \in { ExtractElement(video_elements[idx + 1]) } :
         /\ videos' = Keep(videos, r)
         /\ outcomes' = Append(outcomes, r.out)
    /\ idx' = idx + 1
    /\ pc' = IF idx + 1 = Len(video_elements) THEN "finish" ELSE "loop"
    /\ UNCHANGED << html_content, sel_idx, evaluated, video_elements, result,
                    convVars, exVars, mainVars >>

\* lines 286-293
ParseFinish ==
    /\ pc = "finish"
    /\ result' = Finish(videos)
    /\ pc' = "done"
    /\ UNCHANGED << html_content, sel_idx, evaluated, video_elements, idx, videos,
                    outcomes, convVars, exVars, mainVars >>

Init ==
    /\ pc = "start"
    /\ html_content \in Docs
    /\ sel_idx = 1
    /\ evaluated = << >>
    /\ video_elements = << >>
    /\ idx = 0
    /\ videos = << >>
    /\ outcomes = << >>
    /\ result = NoResult
    /\ ConvOff /\ ExOff /\ MainOff

Next == ParseStart \/ Locate \/ CheckContainers \/ ProcessContainer \/ ParseFinish

Spec == Init /\ [][Next]_vars

-----------------------------------------------------------------------------
(* main: the runs of the script in one session.                            *)

\* a run with the button pressed (lines 367-406)
MainClick ==
    /\ m_pc = "ready"
    /\ api_key # None
    /\ \E channel_url \in Urls, resp \in Responses :
         \E r \in { Scrape(channel_url, resp, scraped_data) } :
             /\ attempt' = r.run
             /\ scraped_data' = r.data
    /\ UNCHANGED << m_pc, api_key, convVars, exVars, parseVars >>

\* a run caused by another widget: the button reads False
MainRerun ==
    /\ m_pc = "ready"
    /\ api_key # None
    /\ attempt' = Idle
    /\ UNCHANGED << m_pc, api_key, scraped_data, convVars, exVars, parseVars >>

\* lines 318-321: without a key every run ends at st.stop()
MainStop ==
    /\ m_pc = "ready"
    /\ api_key = None
    /\ attempt' = Idle
    /\ UNCHANGED << m_pc, api_key, scraped_data, convVars, exVars, parseVars >>

InitMain ==
    /\ m_pc = "ready"
    /\ api_key \in { None, "key" }
    /\ scraped_data = NoneTable
    /\ attempt = Idle
    /\ ConvOff /\ ExOff /\ ParseOff

NextMain == MainClick \/ MainRerun \/ MainStop

SpecMain == InitMain /\ [][NextMain]_vars

-----------------------------------------------------------------------------
(* Properties.                                                             *)

Min(S) == CHOOSE i \in S : \A j \in S : i <= j
Max(S) == CHOOSE i \in S : \A j \in S : j <= i

\* parse_html is past its selector loop
Located == pc \in { "check", "loop", "finish" } \/ (pc = "done" /\ ~html_content.rejected)

\* the container selectors that match something in the document
MatchingSelectors ==
    { i \in 1..Len(ContainerSelectors) :
        \E j \in 1..Len(html_content.elems) :
            html_content.elems[j].kind = ContainerSelectors[i] }

\* C1: the container selectors are evaluated in their fixed order; the
\* candidate set is exactly the result of the first selector that matches
\* anything, no selector after it is evaluated, and the set is empty only
\* when all three selectors match nothing.
C1_FirstMatchWins ==
    /\ pc = "locate" =>
         /\ evaluated = SubSeq(ContainerSelectors, 1, sel_idx - 1)
         /\ video_elements = << >>
         /\ \A i \in MatchingSelectors : i >= sel_idx
    /\ Located =>
         IF MatchingSelectors = {}
         THEN video_elements = << >> /\ evaluated = ContainerSelectors
         ELSE /\ evaluated = SubSeq(ContainerSelectors, 1, Min(MatchingSelectors))
              /\ video_elements # << >>
              /\ video_elements =
                   SelectSeq(html_content.elems,
                             LAMBDA e : e.kind = ContainerSelectors[Min(MatchingSelectors)])

\* the first selector matched one element while the second would match two
C1_Witness ==
    /\ pc = "check"
    /\ Len(video_elements) = 1
    /\ video_elements[1].kind = ContainerSelectors[1]
    /\ Len(SelectContainers(html_content, ContainerSelectors[2])) = 2
    /\ evaluated = << ContainerSelectors[1] >>

IsTable(df) == df # NoneTable /\ df # << >>

OutcomeSuccess == result.success /\ IsTable(result.df) /\ result.error = None

OutcomeNoElements ==
    /\ result = Failure(ErrNoElements)
    /\ video_elements = << >>

OutcomeNoVideos ==
    /\ result = Failure(ErrNoVideos)
    /\ video_elements # << >>
    /\ idx = Len(video_elements)
    /\ videos = << >>

OutcomeParsingFailed ==
    /\ result = Failure(ErrParsingFailed)
    /\ html_content.rejected

\* C2 as stated: parse_html returns exactly one of three outcomes: success
\* with a non-empty table and no error, the 'No video elements found' failure
\* when the candidate set is empty, or the 'No videos were successfully
\* parsed' failure when containers were found and none was accepted.
C2_ThreeOutcomes ==
    pc = "done" => OutcomeSuccess \/ OutcomeNoElements \/ OutcomeNoVideos

\* C2 amended: there is a fourth outcome, the 'Parsing failed - ...' failure
\* of the outer except clause, returned when building the soup raises; the
\* other three are returned otherwise, success never carries an empty table
\* and a failure never carries a table.
C2_FourOutcomes ==
    /\ pc = "done" =>
         IF html_content.rejected THEN OutcomeParsingFailed
         ELSE OutcomeSuccess \/ OutcomeNoElements \/ OutcomeNoVideos
    /\ pc = "done" /\ result.success => result.df = videos /\ videos # << >>
    /\ ~result.success => result.df = NoneTable
    /\ pc # "done" => result = NoResult

\* two containers were found and neither gave a record
C2_Witness ==
    /\ pc = "done"
    /\ Len(video_elements) >= 2
    /\ result = Failure(ErrNoVideos)

\* the processed containers whose extraction completed with a title and a url
Completed(k) ==
    SelectSeq(SubSeq(video_elements, 1, k),
              LAMBDA e : /\ e.fault = "none"
                         /\ ExtractTitle(e.links) \notin { NoneText, << >> }
                         /\ ExtractUrl(e.links) \notin { NoneText, << >> })

C4_NonNegative == cv_pc = "returned" => cv_ret.value >= 0

\* C5 as stated: '<number>K views', '<number>M views', '<number>B views' with
\* a non-negative decimal numeral give round-down(number * multiplier), and a
\* text without K, M, B is parsed as a plain integer once commas are removed.
C5_RoundDown ==
    cv_pc = "returned" =>
        /\ \A ip \in IntParts, fp \in FracParts, suf \in Suffixes \ { << >> } :
              views_text = Numeral(ip, fp) \o suf \o VIEWS =>
                  cv_ret.value = ExactScaled(DigitsValue(ip \o fp), Len(fp),
                                             Multiplier(suf))
        /\ \A ip \in IntParts :
              views_text = ip \o VIEWS => cv_ret.value = DigitsValue(ip)
        /\ views_text = << "1", "2", ",", "3", "4", "5" >> \o VIEWS =>
              cv_ret.value = 12345

\* texts no branch can parse
Malformed ==
    { << "N", "/", "A" >>, << >>, << "a", "b", "c" >> \o VIEWS,
      << "K" >>, << "1", ",", "2", "K" >>, << "1", ".", "2", ".", "3", "K" >>,
      << "1", "K", "M" >>, << "-" >>, << "." >>,
      << "1", ".", "2" >> \o VIEWS }

\* C6: no exception leaves convert_views_to_number; a text that the branch
\* selected for it cannot parse gives exactly 0 (with a warning logged), and
\* a text that parses gives its value without a warning.
C6_NeverRaises ==
    cv_pc = "returned" =>
        /\ ~cv_ret.raised
        /\ cv_ret.warned => cv_ret.value = 0
        /\ views_text \in Malformed => cv_ret.value = 0 /\ cv_ret.warned
        /\ cv_ret.warned <=> ~ConvertTry(views_text).ok

\* a K text whose remainder is not a number came back as 0
C6_Witness ==
    /\ cv_pc = "returned"
    /\ views_text = << "1", ",", "2", "K" >>
    /\ cv_ret = [ value |-> 0, warned |-> TRUE, raised |-> FALSE ]

\* the metadata loop of the container is over and nothing raised
MetaDone == ex_pc \in { "decide", "done" } /\ ex_out # "raised"

SpansOf(i) == Select(element.spans, MetadataSelectors[i])

ViewsOf(span) == convert_views_to_number(Strip(span.text)).value

\* C7 as stated: the first metadata selector that finds any span decides
\* Views and Posted, a later selector is tried only after selectors that
\* found nothing, and a single span leaves Posted at 'N/A'.
C7_FirstNonEmptyDecides ==
    MetaDone =>
        LET hits == { i \in 1..Len(MetadataSelectors) : SpansOf(i) # << >> }
        IN  IF hits = {}
            THEN /\ views = 0 /\ time_posted = NotAvailable
                 /\ meta_tried = MetadataSelectors
            ELSE /\ meta_tried = SubSeq(MetadataSelectors, 1, Min(hits))
                 /\ views = ViewsOf(SpansOf(Min(hits))[1])
                 /\ time_posted = IF Len(SpansOf(Min(hits))) >= 2
                                  THEN Strip(SpansOf(Min(hits))[2].text)
                                  ELSE NotAvailable

\* C7 amended: the first selector that finds two or more spans decides Views
\* (its first span) and Posted (its second) and ends the search.  A selector
\* that finds exactly one span only sets Views and the search goes on, so
\* when no selector finds two spans all three are tried, Posted stays 'N/A'
\* and Views comes from the last selector that found a span (0 if none did).
C7_TwoSpansDecide ==
    MetaDone =>
        LET pairs   == { i \in 1..Len(MetadataSelectors) : Len(SpansOf(i)) >= 2 }
            singles == { i \in 1..Len(MetadataSelectors) : Len(SpansOf(i)) = 1 }
        IN  IF pairs # {}
            THEN /\ meta_tried = SubSeq(MetadataSelectors, 1, Min(pairs))
                 /\ views = ViewsOf(SpansOf(Min(pairs))[1])
                 /\ time_posted = Strip(SpansOf(Min(pairs))[2].text)
            ELSE /\ meta_tried = MetadataSelectors
                 /\ time_posted = NotAvailable
                 /\ views = IF singles = {} THEN 0
                            ELSE ViewsOf(SpansOf(Max(singles))[1])

\* the first selector found one span ("523 views"), the third found two:
\* Views and Posted are the third selector's
C7_Witness ==
    /\ ex_pc = "done"
    /\ ex_out = "appended"
    /\ Len(SpansOf(1)) = 1
    /\ SpansOf(1)[1].text = TextViews
    /\ Len(SpansOf(3)) = 2
    /\ views = 0
    /\ time_posted = Strip(TextViews)

\* C8: a container whose extraction raises adds no record; the records of
\* earlier containers stay, later containers are still processed, the
\* records are those the batch would have without the raising containers'
\* title and url, and the batch fails with 'No videos were successfully
\* parsed' only when no record was accepted once all containers were done.
C8_RaisingContainerSkipped ==
    (pc \in { "loop", "finish", "done" } /\ video_elements # << >>) =>
        /\ Len(outcomes) = idx
        /\ \A i \in 1..idx :
              video_elements[i].fault # "none" <=> outcomes[i] = "raised"
        /\ Len(videos) = Cardinality({ i \in 1..idx : outcomes[i] = "appended" })
        /\ videos = ParseLoop(<< >>,
                              [ i \in 1..idx |->
                                  IF video_elements[i].fault = "none"
                                  THEN video_elements[i]
                                  ELSE [ video_elements[i] EXCEPT
                                           !.links = << >>, !.fault = "none" ] ],
                              1)
        /\ pc = "done" =>
              /\ idx = Len(video_elements)
              /\ result = Failure(ErrNoVideos) <=> videos = << >>
              /\ videos # << >> => result = Success(videos)

\* the second of three containers raised; the first and third gave records
C8_Witness ==
    /\ pc = "done"
    /\ outcomes = << "appended", "raised", "appended" >>
    /\ result.success
    /\ Len(result.df) = 2

\* the url step of the container has run
UrlDone ==
    \/ ex_pc \in { "meta", "decide" }
    \/ ex_pc = "done" /\ element.fault \notin { "title", "url" }

\* positions of the nodes 'a#video-title-link, a#video-title' matches
LinkPositions ==
    { i \in 1..Len(element.links) :
        /\ element.links[i].tag = "a"
        /\ element.links[i].id \in { "video-title-link", "video-title" } }

\* C9: when the matched link node has a non-empty href, the url is the
\* origin followed by the href if the href starts with '/', and the href
\* itself otherwise; with no such node or no non-empty href the url is empty
\* and the container gives no record.
C9_UrlFromHref ==
    UrlDone =>
        IF /\ LinkPositions # {}
           /\ element.links[Min(LinkPositions)].href \notin { NoneText, << >> }
        THEN LET href == element.links[Min(LinkPositions)].href
             IN  url = IF href[1] = "/" THEN Origin \o href ELSE href
        ELSE url = NoneText /\ ex_out # "appended"

\* a record was accepted whose url is the origin followed by "/w"
C9_Witness ==
    /\ ex_pc = "done"
    /\ ex_out = "appended"
    /\ LinkPositions # {}
    /\ element.links[Min(LinkPositions)].href = << "/", "w" >>
    /\ url = Origin \o << "/", "w" >>

\* C10: scraped_data is assigned only in a run whose fetch and whose parse
\* both succeeded, and then it is that run's table; a run that fails at
\* either stage, or has an empty URL, leaves it as it was, and parse_html is
\* not called after a failed fetch.
C10_OnlySuccessStores ==
    [][ /\ scraped_data' # scraped_data =>
             /\ attempt'.fetch_ok /\ attempt'.parse_ok
             /\ IsTable(scraped_data')
        /\ attempt'.assigned =>
             /\ attempt'.fetch_ok /\ attempt'.parse_ok
             /\ scraped_data' = attempt'.df
        /\ ~attempt'.assigned => scraped_data' = scraped_data
        /\ attempt'.parsed => attempt'.fetched /\ attempt'.fetch_ok
        /\ attempt'.url = << >> => ~attempt'.fetched
      ]_vars

\* a table from an earlier run is still there after a run whose parse failed
C10_Witness ==
    /\ IsTable(scraped_data)
    /\ attempt.button
    /\ attempt.parsed
    /\ ~attempt.parse_ok
    /\ attempt.error = ErrNoVideos

=============================================================================
